---- MODULE Spec2Model ----
(***************************************************************************)
(* PWD-per-drive registry of nu-path (crates/nu-path/src/pwd_per_drive.rs). *)
(*                                                                         *)
(* A path is a sequence of one-character strings.  Option<T> is the empty  *)
(* sequence (None) or a one-element sequence (Some(x)).  The table         *)
(* DriveToPwdMap.map is a function from the modelled drive letters to      *)
(* Option<String>.  The operating system (GetFullPathNameW through         *)
(* omnipath::sys_absolute) is an environment that may give any of its      *)
(* answers at every query.                                                 *)
(***************************************************************************)
EXTENDS Naturals, Sequences, FiniteSets

VARIABLES
    constructed,  \* has DriveToPwdMap::new() run (table-level: the map exists)
    map,          \* DriveToPwdMap.map: drive letter -> Option<String>
    env,          \* the process environment's "=X:" variables: drive -> Option<String>
    last,         \* the last call on the table: operation, argument, result, OS use
    setDrives,    \* the drives set_pwd has recorded a directory for (history)
    pc,           \* shared_map callers: each thread's position
    call,         \* shared_map callers: each thread's current call and its locals
    lock,         \* the Mutex around the shared table: its holder, or None
    lin,          \* the table and results of the calls run one at a time, in lock order
    poisoned,     \* the Mutex's poison flag: a thread panicked while it held the guard
    initBy,       \* OnceLock: the thread that runs the initializer of get_or_init, or None
    nNew,         \* the number of times DriveToPwdMap::new() has run (history)
    imp           \* init_pwd_per_drive (run.rs): the position of its loop, its phase,
                  \* and the drives whose variable its loop has applied (history)

vars == <<constructed, map, env, last, setDrives, pc, call, lock, lin,
          poisoned, initBy, nNew, imp>>

----------------------------------------------------------------------------
(* Bounds of the model *)

\* directory components below the root in the absolute paths callers pass
MaxSegs == 1

----------------------------------------------------------------------------
(* Characters and strings *)

None == << >>
Some(x) == << x >>
IsSome(o) == o # << >>
Unwrap(o) == o[1]

BSlash == "\\"
Slash == "/"
Colon == ":"

\* The slots of the table that the model keeps ('A'..='Z' in the code).
Drives == {"C", "D", "E", "Z"}

UpperLetters == {"C", "D", "E", "Z"}
LowerLetters == {"c", "d", "e", "z"}

is_ascii_alphabetic(c) == c \in UpperLetters \cup LowerLetters

to_ascii_uppercase(c) ==
    CASE c = "c" -> "C"
      [] c = "d" -> "D"
      [] c = "e" -> "E"
      [] c = "z" -> "Z"
      [] OTHER -> c

ends_with(s, c) == Len(s) > 0 /\ s[Len(s)] = c

\* &s[n..] of the code: the string without its first n characters
Skip(s, n) == SubSeq(s, n + 1, Len(s))

\* format!("={}:", drive_letter)
EnvVarForDrive(d) == <<"=", d, Colon>>

\* the root directory of a drive, "X:\"
RootOf(d) == <<d, Colon, BSlash>>

\* the default without its root separator
DefaultPwdNoRoot(d) == <<d, Colon>>

\* format!(r"{}:\", drive_letter): the default get_pwd returns for a drive
\* that neither the table nor the operating system knows
DefaultPwd(d) == <<d, Colon, BSlash>>

\* the length of the bare root "X:\" that a stored value must exceed
RootLen == 3

----------------------------------------------------------------------------
(* Results of the calls *)

Ret(tag, val) == [tag |-> tag, val |-> val]
RetOk == Ret("Ok", << >>)
RetOkStr(s) == Ret("Ok", s)
RetErr(e) == Ret(e, << >>)
RetNone == Ret("None", << >>)
RetSome(s) == Ret("Some", s)

----------------------------------------------------------------------------
(* The pure helpers of pwd_per_drive.rs *)

\* need_expand without its test of the third character
need_expand_any_drive(path) ==
    IF Len(path) >= 2 THEN path[2] = Colon ELSE FALSE

\* need_expand that takes only "\" for a root separator
need_expand_only_backslash(path) ==
    IF Len(path) >= 2
    THEN path[2] = Colon /\ (Len(path) = 2 \/ path[3] # BSlash)
    ELSE FALSE

\* need_expand: "X:" or "X:rel", but not "X:\abs" or "X:/abs"
need_expand(path) ==
    IF Len(path) >= 2
    THEN path[2] = Colon
         /\ (Len(path) = 2 \/ (path[3] # Slash /\ path[3] # BSlash))
    ELSE FALSE

\* extract_drive_letter without its filter: the first character
extract_first_char(path) ==
    IF Len(path) >= 1 THEN Some(path[1]) ELSE None

\* DriveToPwdMap::extract_drive_letter: the first character, if an ASCII letter
extract_drive_letter(path) ==
    IF Len(path) >= 1 /\ is_ascii_alphabetic(path[1])
    THEN Some(path[1])
    ELSE None

\* DriveToPwdMap::ensure_trailing_delimiter
ensure_trailing_delimiter(path) ==
    IF ~ends_with(path, BSlash) /\ ~ends_with(path, Slash)
    THEN path \o <<BSlash>>
    ELSE path

\* Does a path start with a drive prefix "X:" (std::path on Windows)
has_prefix(path) ==
    Len(path) >= 2 /\ is_ascii_alphabetic(path[1]) /\ path[2] = Colon

\* base.push(rel) of expand_path, on a base that ends with a separator and a
\* rel that has no root: a rel with a drive prefix replaces the base
\* (PathBuf::push), any other rel is appended.
push(base, rel) ==
    IF has_prefix(rel) THEN rel ELSE base \o rel

----------------------------------------------------------------------------
(* DriveToPwdMap *)

\* the drive letters in the order of the loops over 'A'..='Z'
DriveSeq == <<"C", "D", "E", "Z">>

EmptyMap == [d \in Drives |-> None]

\* set_pwd without line 146: the drive letter kept as given
StoredLetterAsGiven(c) == c

\* the character used for a stored drive letter by set_pwd
StoredLetter(c) == to_ascii_uppercase(c)

\* a test of the length that no value passes
NonTrivialNever(pwd) == FALSE

\* a test of the length that every value passes
NonTrivialAlways(pwd) == TRUE

\* the condition under which new(), get_pwd and get_env_vars take a value
\* as a recorded directory: pwd.len() > 3
NonTrivial(pwd) == Len(pwd) > RootLen

\* a set_pwd that writes the path into every slot
set_pwd_all_slots(m, path) ==
    LET dl == extract_drive_letter(path) IN
    IF IsSome(dl)
    THEN LET drive_letter == StoredLetter(Unwrap(dl)) IN
         [map |-> [d \in Drives |-> Some(<<drive_letter>> \o Tail(path))],
          ret |-> RetOk]
    ELSE [map |-> m, ret |-> RetErr("InvalidPath")]

\* a set_pwd that leaves a slot that already holds a directory as it is
set_pwd_keep_first(m, path) ==
    LET dl == extract_drive_letter(path) IN
    IF IsSome(dl)
    THEN LET drive_letter == StoredLetter(Unwrap(dl)) IN
         [map |-> IF IsSome(m[drive_letter])
                  THEN m
                  ELSE [m EXCEPT ![drive_letter] =
                           Some(<<drive_letter>> \o Tail(path))],
          ret |-> RetOk]
    ELSE [map |-> m, ret |-> RetErr("InvalidPath")]

\* DriveToPwdMap::set_pwd(&mut self, path): the new table and the result
set_pwd(m, path) ==
    LET dl == extract_drive_letter(path) IN
    IF IsSome(dl)
    THEN IF is_ascii_alphabetic(Unwrap(dl))
         THEN LET drive_letter == StoredLetter(Unwrap(dl)) IN
              IF Len(path) = 0
              THEN [map |-> m, ret |-> RetErr("InvalidDriveLetter")]
              ELSE [map |-> [m EXCEPT ![drive_letter] =
                                 Some(<<drive_letter>> \o Tail(path))],
                    ret |-> RetOk]
         ELSE [map |-> m, ret |-> RetErr("InvalidDriveLetter")]
    ELSE [map |-> m, ret |-> RetErr("InvalidPath")]

\* DriveToPwdMap::get_pwd(&mut self, drive_letter); sys is what
\* get_full_path_name_w answers if it is asked.
get_pwd(m, drive_letter, sys) ==
    IF is_ascii_alphabetic(drive_letter)
    THEN LET d == to_ascii_uppercase(drive_letter) IN
         IF IsSome(m[d])
         THEN [map |-> m, ret |-> RetOkStr(Unwrap(m[d])), asked |-> FALSE]
         ELSE IF IsSome(sys)
              THEN [map |-> IF NonTrivial(Unwrap(sys))
                            THEN [m EXCEPT ![d] = sys]
                            ELSE m,
                    ret |-> RetOkStr(Unwrap(sys)),
                    asked |-> TRUE]
              ELSE [map |-> m, ret |-> RetOkStr(DefaultPwd(d)), asked |-> TRUE]
    ELSE [map |-> m, ret |-> RetErr("InvalidDriveLetter"), asked |-> FALSE]

\* DriveToPwdMap::expand_path(&mut self, path)
expand_path(m, path, sys) ==
    IF need_expand(path)
    THEN LET dl == extract_drive_letter(path) IN
         IF IsSome(dl)
         THEN LET g == get_pwd(m, Unwrap(dl), sys) IN
              IF g.ret.tag = "Ok"
              THEN [map |-> g.map,
                    ret |-> RetSome(push(ensure_trailing_delimiter(g.ret.val),
                                         Skip(path, 2))),
                    asked |-> g.asked]
              ELSE [map |-> g.map, ret |-> RetNone, asked |-> g.asked]
         ELSE [map |-> m, ret |-> RetNone, asked |-> FALSE]
    ELSE [map |-> m, ret |-> RetNone, asked |-> FALSE]

\* The caller's HashMap<String, String>: a set of <<key, value>> entries,
\* one for a key at most
EmptySink == {}

\* an insert that drops the other entries
insert_alone(sink, k, v) == {<<k, v>>}

\* HashMap::insert
insert(sink, k, v) == {e \in sink : e[1] # k} \cup {<<k, v>>}

\* the loop body without the test of the length
EnvVarsStepNoFilter(m, sink, d) ==
    IF IsSome(m[d])
    THEN insert(sink, EnvVarForDrive(d), Unwrap(m[d]))
    ELSE sink

\* the body of the loop of get_env_vars for one drive
EnvVarsStep(m, sink, d) ==
    IF IsSome(m[d]) /\ NonTrivial(Unwrap(m[d]))
    THEN insert(sink, EnvVarForDrive(d), Unwrap(m[d]))
    ELSE sink

RECURSIVE EnvVarsFrom(_, _, _)
EnvVarsFrom(m, sink, i) ==
    IF i > Len(DriveSeq)
    THEN sink
    ELSE EnvVarsFrom(m, EnvVarsStep(m, sink, DriveSeq[i]), i + 1)

\* DriveToPwdMap::get_env_vars(&self, env)
get_env_vars(m, sink) == EnvVarsFrom(m, sink, 1)

\* the body of the loop of new() without its tests of the length
NewStepNoLengthTest(st, d, sys) ==
    IF IsSome(st.env[d])
    THEN [map |-> [st.map EXCEPT ![d] = st.env[d]],
          env |-> [st.env EXCEPT ![d] = None]]
    ELSE IF IsSome(sys)
         THEN [map |-> [st.map EXCEPT ![d] = sys], env |-> st.env]
         ELSE st

\* the body of the loop of new() for one drive: st is [map, env], sys the
\* answer of get_full_path_name_w for that drive
NewStep(st, d, sys) ==
    IF IsSome(st.env[d]) /\ NonTrivial(Unwrap(st.env[d]))
    THEN [map |-> [st.map EXCEPT ![d] = st.env[d]],
          env |-> [st.env EXCEPT ![d] = None]]
    ELSE IF IsSome(sys) /\ NonTrivial(Unwrap(sys))
         THEN [map |-> [st.map EXCEPT ![d] = sys], env |-> st.env]
         ELSE st

RECURSIVE NewFrom(_, _, _)
NewFrom(st, os, i) ==
    IF i > Len(DriveSeq)
    THEN st
    ELSE NewFrom(NewStep(st, DriveSeq[i], os[DriveSeq[i]]), os, i + 1)

\* DriveToPwdMap::new(): the table built from the environment e and the
\* answers os of the operating system, and the environment it leaves
DriveToPwdMap_new(e, os) == NewFrom([map |-> EmptyMap, env |-> e], os, 1)

----------------------------------------------------------------------------
(* The inputs of the calls and the answers of the environment *)

\* k directory components "e" below the root: "", "e", "e\e", ...
RECURSIVE Segs(_)
Segs(k) ==
    IF k = 0 THEN << >>
    ELSE IF k = 1 THEN <<"e">>
    ELSE Segs(k - 1) \o <<BSlash, "e">>

\* what follows the drive letter in an absolute path: ":\", ":\e", ...
AbsRems == {<<Colon, BSlash>> \o Segs(k) : k \in 0..MaxSegs}

\* what follows the first character in the other paths: nothing, the bare
\* designator, a relative path, a "/" root, a relative path that itself
\* starts with a drive prefix
OtherRems == {<< >>, <<Colon>>, <<Colon, "e">>, <<Colon, Slash, "e">>,
              <<Colon, "e", Colon>>}

Rems == AbsRems \cup OtherRems

\* the longest absolute remainder
LongRem == <<Colon, BSlash>> \o Segs(MaxSegs)

\* the path strings the callers pass; one of them ends in two separators
Paths ==
    {<<f>> \o r : f \in {"C", "c"}, r \in Rems}
    \cup {<<"D">> \o r : r \in AbsRems}
    \cup {<<"d", Colon, "e">>, <<"Z">> \o LongRem, <<"z", Colon>>}
    \cup {<<"Z">> \o LongRem \o <<BSlash, BSlash>>}
    \cup {<< >>, <<BSlash, "e">>, <<"1">> \o LongRem, <<"1", Colon, "e">>}

\* the characters get_pwd is called with
GetLetters == UpperLetters \cup {"c", "1"}

\* get_full_path_name_w("X:"): no answer, the root, or a directory
OsAnswers(d) == {None, Some(RootOf(d)), Some(RootOf(d) \o <<"e">>)}

\* every answer the operating system may give for every drive
OsStates == [Drives -> UNION {OsAnswers(d) : d \in Drives}]

OsWorld == {os \in OsStates : \A d \in Drives : os[d] \in OsAnswers(d)}

\* the "=X:" variables a process may inherit: a directory with a lower case
\* drive letter, a bare root, a directory
InheritedVals(d) ==
    CASE d = "C" -> {<<"c", Colon, BSlash, "e">>}
      [] d = "D" -> {RootOf("D")}
      [] d = "E" -> {RootOf("E") \o <<"e">>}
      [] OTHER -> {}

InheritedEnvs ==
    {e \in [Drives -> {None} \cup {Some(v) : v \in UNION {InheritedVals(d) : d \in Drives}}] :
        \A d \in Drives : e[d] = None \/ Unwrap(e[d]) \in InheritedVals(d)}

\* the HashMaps the callers of get_env_vars pass
SinkInputs ==
    {EmptySink,
     {<<<<"P">>, <<"p">>>>, <<EnvVarForDrive("C"), <<"x">>>>}}

----------------------------------------------------------------------------
(* State *)

\* the threads that call into shared_map
Threads == {"t1", "t2"}

\* sys is the answer of the operating system when the call asked for one
Last(op, arg, ret, asked, sys, sinkIn, sinkOut) ==
    [op |-> op, arg |-> arg, ret |-> ret, asked |-> asked,
     sys |-> IF asked THEN sys ELSE None,
     sinkIn |-> sinkIn, sinkOut |-> sinkOut]

\* a thread's call: the operation, its argument, the HashMap it fills, its
\* result, whether the operating system was asked during it, the write to a
\* slot that get_pwd has still to make, the position of its loop
NoCall == [op |-> "none", arg |-> << >>, sink |-> EmptySink, ret |-> RetNone,
           asked |-> FALSE, pend |-> None, i |-> 0]

\* the calls run one at a time: the table, and each thread's result
NoLin == [map |-> EmptyMap, ret |-> [t \in Threads |-> RetNone],
          sink |-> [t \in Threads |-> EmptySink]]

\* init_pwd_per_drive is not running
NoImport == [i |-> 0, phase |-> "off", applied |-> {}]

Init ==
    /\ constructed = FALSE
    /\ map = EmptyMap
    /\ env \in InheritedEnvs
    /\ last = Last("none", << >>, RetNone, FALSE, None, EmptySink, EmptySink)
    /\ setDrives = {}
    /\ pc = [t \in Threads |-> "idle"]
    /\ call = [t \in Threads |-> NoCall]
    /\ lock = None
    /\ lin = NoLin
    /\ poisoned = FALSE
    /\ initBy = None
    /\ nNew = 0
    /\ imp = NoImport

sharedVars == <<pc, call, lock, lin, poisoned, initBy>>

----------------------------------------------------------------------------
(* The calls on a table of one's own (DriveToPwdMap::new() and its methods) *)

New ==
    /\ ~constructed
    /\ \E os \in OsWorld :
         LET r == DriveToPwdMap_new(env, os) IN
         /\ map' = r.map
         /\ env' = r.env
    /\ constructed' = TRUE
    /\ last' = Last("new", << >>, RetOk, TRUE, None, EmptySink, EmptySink)
    /\ nNew' = nNew + 1
    /\ UNCHANGED <<setDrives, sharedVars, imp>>

SetPwd ==
    /\ constructed
    /\ \E path \in Paths :
         LET r == set_pwd(map, path) IN
         /\ map' = r.map
         /\ last' = Last("set_pwd", path, r.ret, FALSE, None, EmptySink, EmptySink)
         /\ setDrives' = IF r.ret.tag = "Ok"
                          THEN setDrives \cup {to_ascii_uppercase(path[1])}
                          ELSE setDrives
    /\ UNCHANGED <<constructed, env, nNew, sharedVars, imp>>

\* what get_full_path_name_w may answer in a call whose drive is named by
\* the first character of path: the call asks only for a drive letter whose
\* slot is None, and the answer of a call that does not ask is not used
SysAnswers(m, path) ==
    LET dl == extract_drive_letter(path) IN
    IF IsSome(dl) /\ m[to_ascii_uppercase(Unwrap(dl))] = None
    THEN OsAnswers(to_ascii_uppercase(Unwrap(dl)))
    ELSE {None}

GetPwd ==
    /\ constructed
    /\ \E c \in GetLetters :
       \E sys \in SysAnswers(map, <<c>>) :
         LET r == get_pwd(map, c, sys) IN
         /\ map' = r.map
         /\ last' = Last("get_pwd", <<c>>, r.ret, r.asked, sys, EmptySink, EmptySink)
    /\ UNCHANGED <<constructed, env, setDrives, nNew, sharedVars, imp>>

ExpandPath ==
    /\ constructed
    /\ \E path \in Paths :
       \E sys \in SysAnswers(map, path) :
         LET r == expand_path(map, path, sys) IN
         /\ map' = r.map
         /\ last' = Last("expand_path", path, r.ret, r.asked, sys, EmptySink, EmptySink)
    /\ UNCHANGED <<constructed, env, setDrives, nNew, sharedVars, imp>>

GetEnvVars ==
    /\ constructed
    /\ \E sink \in SinkInputs :
         last' = Last("get_env_vars", << >>, RetOk, FALSE, None, sink,
                      get_env_vars(map, sink))
    /\ UNCHANGED <<constructed, map, env, setDrives, nNew, sharedVars, imp>>

Next == New \/ SetPwd \/ GetPwd \/ ExpandPath \/ GetEnvVars

Spec == Init /\ [][Next]_vars

----------------------------------------------------------------------------
(* shared_map: the calls of several threads on the one table behind        *)
(* DRIVE_PWD_MAP: OnceLock<Mutex<DriveToPwdMap>>                           *)

\* the path strings the threads pass
SharedPaths ==
    {<<"C", Colon, BSlash>>, <<"c">> \o LongRem, <<"c", Colon, "e">>,
     <<"1", Colon, "e">>, <<BSlash, "e">>}

tableVars == <<last, setDrives, imp>>

\* what no step under the guard changes: the poison flag and the OnceLock
onceVars == <<poisoned, initBy, nNew>>

\* Mutex::lock() returns to thread t only while no other thread holds the guard
CanLockAlways(t) == TRUE

CanLock(t) == lock = None

\* a lock() that takes a poisoned Mutex for a sound one
LockResultIgnoringPoison == "Ok"

\* the LockResult of Mutex::lock(): Err(PoisonError) once a holder has panicked
LockResult == IF poisoned THEN "Err" ELSE "Ok"

\* a OnceLock that lets every caller run the initializer
OnceAdmitsAlways(t) == TRUE

\* OnceLock::get_or_init on an empty cell: thread t runs the initializer
\* unless another thread is running it, in which case t waits
OnceAdmits(t) == initBy = None

\* a guard that is leaked instead of dropped: the Mutex stays locked
DropGuardLeaked(t) == Some(t)

\* the holder of the Mutex after thread t's MutexGuard is dropped
DropGuard(t) == None

\* between the return of lock() and the drop of the guard
InCritical(t) == pc[t] \in {"locked", "store", "unlock", "failed"}

\* expand_pwd on a path that need_expand rejects: None, and the table is
\* not even reached
ExpandPwdNoNeed(t) ==
    /\ pc[t] = "idle"
    /\ \E path \in SharedPaths :
         /\ ~need_expand(path)
         /\ call' = [call EXCEPT ![t] =
                        [NoCall EXCEPT !.op = "expand_pwd", !.arg = path,
                                       !.ret = RetNone]]
    /\ pc' = [pc EXCEPT ![t] = "done"]
    /\ lin' = [lin EXCEPT !.ret[t] = RetNone]
    /\ UNCHANGED <<constructed, map, env, lock, tableVars, onceVars>>

\* the paths of the callers that take the guard themselves
GuardedPaths == {<<"C", Colon, BSlash>>, <<BSlash, "e">>}

\* the calls that reach the table: those of shared_map, and that of a caller
\* which takes the guard itself and asserts that set_pwd succeeds
\* (get_shared_drive_pwd_map().lock().unwrap(), assert!(map.set_pwd(..).is_ok()))
SharedCalls ==
    {[NoCall EXCEPT !.op = "set_pwd", !.arg = path] : path \in SharedPaths}
    \cup {[NoCall EXCEPT !.op = "expand_pwd", !.arg = path] :
            path \in {q \in SharedPaths : need_expand(q)}}
    \cup {[NoCall EXCEPT !.op = "get_env_vars", !.sink = sink] :
            sink \in SinkInputs}
    \cup {[NoCall EXCEPT !.op = "guarded_set_pwd", !.arg = path] :
            path \in GuardedPaths}

\* get_shared_drive_pwd_map(): DRIVE_PWD_MAP.get_or_init hands out the one
\* Mutex once the cell is filled; on an empty cell the caller becomes the
\* one that runs the initializer, and the others wait for it
GetSharedDrivePwdMap(t) ==
    /\ pc[t] = "idle"
    /\ \E c \in SharedCalls : call' = [call EXCEPT ![t] = c]
    /\ IF constructed
       THEN /\ pc' = [pc EXCEPT ![t] = "lock"]
            /\ UNCHANGED initBy
       ELSE IF OnceAdmits(t)
            THEN /\ pc' = [pc EXCEPT ![t] = "init"]
                 /\ initBy' = Some(t)
            ELSE /\ pc' = [pc EXCEPT ![t] = "once_wait"]
                 /\ UNCHANGED initBy
    /\ UNCHANGED <<constructed, map, env, lock, lin, poisoned, nNew, tableVars>>

\* the initializer of get_or_init: Mutex::new(DriveToPwdMap::new())
OnceInit(t) ==
    /\ pc[t] = "init"
    /\ \E os \in OsWorld :
         LET r == DriveToPwdMap_new(env, os) IN
         /\ map' = r.map
         /\ env' = r.env
         /\ lin' = [lin EXCEPT !.map = r.map]
    /\ constructed' = TRUE
    /\ nNew' = nNew + 1
    /\ initBy' = None
    /\ call' = [call EXCEPT ![t].asked = TRUE]
    /\ pc' = [pc EXCEPT ![t] = "lock"]
    /\ UNCHANGED <<lock, poisoned, tableVars>>

\* get_or_init returns to a thread that waited once the cell is filled
OnceWaitDone(t) ==
    /\ pc[t] = "once_wait"
    /\ constructed
    /\ pc' = [pc EXCEPT ![t] = "lock"]
    /\ UNCHANGED <<constructed, map, env, call, lock, lin, tableVars, onceVars>>

\* .lock(): the Mutex is taken, poisoned or not
Lock(t) ==
    /\ pc[t] = "lock"
    /\ CanLock(t)
    /\ lock' = Some(t)
    /\ pc' = [pc EXCEPT ![t] = IF LockResult = "Ok" THEN "locked" ELSE "failed"]
    /\ UNCHANGED <<constructed, map, env, call, lin, tableVars, onceVars>>

\* the result of a shared_map call whose lock() returned Err
LockFailedRet(op) ==
    CASE op = "set_pwd" -> RetErr("CantLockSharedMap")
      [] op = "expand_pwd" -> RetNone
      [] OTHER -> RetOk

\* the else branches of shared_map: lock() returned Err(PoisonError)
LockFailed(t) ==
    /\ pc[t] = "failed"
    /\ call[t].op \in {"set_pwd", "expand_pwd", "get_env_vars"}
    /\ call' = [call EXCEPT ![t].ret = LockFailedRet(call[t].op)]
    /\ lin' = [lin EXCEPT !.ret[t] = LockFailedRet(call[t].op),
                          !.sink[t] = call[t].sink]
    /\ pc' = [pc EXCEPT ![t] = "unlock"]
    /\ UNCHANGED <<constructed, map, env, lock, tableVars, onceVars>>

\* shared_map::set_pwd under the guard: pwd_per_drive.set_pwd(path)
SharedSetPwd(t) ==
    /\ pc[t] = "locked"
    /\ call[t].op = "set_pwd"
    /\ LET r == set_pwd(map, call[t].arg)
           a == set_pwd(lin.map, call[t].arg) IN
       /\ map' = r.map
       /\ call' = [call EXCEPT ![t].ret = r.ret]
       /\ lin' = [lin EXCEPT !.map = a.map, !.ret[t] = a.ret]
    /\ pc' = [pc EXCEPT ![t] = "unlock"]
    /\ UNCHANGED <<constructed, env, lock, tableVars, onceVars>>

\* a caller that holds the guard itself: assert!(map.set_pwd(path).is_ok());
\* a failed assertion unwinds through the guard, which poisons the Mutex
\* and unlocks it, and ends the thread
GuardedSetPwd(t) ==
    /\ pc[t] = "locked"
    /\ call[t].op = "guarded_set_pwd"
    /\ LET r == set_pwd(map, call[t].arg)
           a == set_pwd(lin.map, call[t].arg) IN
       /\ map' = r.map
       /\ call' = [call EXCEPT ![t].ret = r.ret]
       /\ lin' = [lin EXCEPT !.map = a.map, !.ret[t] = a.ret]
       /\ IF r.ret.tag = "Ok"
          THEN /\ pc' = [pc EXCEPT ![t] = "unlock"]
               /\ UNCHANGED <<lock, poisoned>>
          ELSE /\ pc' = [pc EXCEPT ![t] = "panicked"]
               /\ poisoned' = TRUE
               /\ lock' = DropGuard(t)
    /\ UNCHANGED <<constructed, env, initBy, nNew, tableVars>>

\* the same caller on a poisoned Mutex: lock().unwrap() panics, the guard
\* inside the error is dropped
GuardedUnwrapFailed(t) ==
    /\ pc[t] = "failed"
    /\ call[t].op = "guarded_set_pwd"
    /\ pc' = [pc EXCEPT ![t] = "panicked"]
    /\ lock' = DropGuard(t)
    /\ UNCHANGED <<constructed, map, env, call, lin, tableVars, onceVars>>

\* shared_map::expand_pwd under the guard, up to the result of get_pwd: the
\* slot is read, the operating system asked if it is None, and the result
\* built; a write of the answer into the slot is still to come
SharedExpandPath(t) ==
    /\ pc[t] = "locked"
    /\ call[t].op = "expand_pwd"
    /\ \E sys \in SysAnswers(map, call[t].arg) :
         LET r == expand_path(map, call[t].arg, sys)
             a == expand_path(lin.map, call[t].arg, sys) IN
         /\ call' = [call EXCEPT ![t].ret = r.ret,
                                 ![t].asked = call[t].asked \/ r.asked,
                                 ![t].pend = IF r.map # map THEN sys ELSE None]
         /\ lin' = [lin EXCEPT !.map = a.map, !.ret[t] = a.ret]
         /\ pc' = [pc EXCEPT ![t] = IF r.map # map THEN "store" ELSE "unlock"]
    /\ UNCHANGED <<constructed, map, env, lock, tableVars, onceVars>>

\* get_pwd's self.map[drive_index] = Some(sys_pwd.clone())
SharedStore(t) ==
    /\ pc[t] = "store"
    /\ map' = [map EXCEPT ![to_ascii_uppercase(call[t].arg[1])] = call[t].pend]
    /\ call' = [call EXCEPT ![t].pend = None]
    /\ pc' = [pc EXCEPT ![t] = "unlock"]
    /\ UNCHANGED <<constructed, env, lock, lin, tableVars, onceVars>>

\* shared_map::get_env_vars under the guard: one turn of the loop over the
\* drives
SharedEnvVarsStep(t) ==
    /\ pc[t] = "locked"
    /\ call[t].op = "get_env_vars"
    /\ LET i == call[t].i + 1 IN
       /\ call' = [call EXCEPT
                     ![t].sink = EnvVarsStep(map, call[t].sink, DriveSeq[i]),
                     ![t].i = i,
                     ![t].ret = RetOk]
       /\ pc' = [pc EXCEPT ![t] = IF i = Len(DriveSeq) THEN "unlock" ELSE "locked"]
       /\ lin' = IF i = 1
                 THEN [lin EXCEPT !.ret[t] = RetOk,
                                  !.sink[t] = get_env_vars(lin.map, call[t].sink)]
                 ELSE lin
    /\ UNCHANGED <<constructed, map, env, lock, tableVars, onceVars>>

\* the guard is dropped at the end of the if let
Unlock(t) ==
    /\ pc[t] = "unlock"
    /\ lock' = DropGuard(t)
    /\ pc' = [pc EXCEPT ![t] = "done"]
    /\ UNCHANGED <<constructed, map, env, call, lin, tableVars, onceVars>>

\* the call returns to its caller
Return(t) ==
    /\ pc[t] = "done"
    /\ pc' = [pc EXCEPT ![t] = "idle"]
    /\ call' = [call EXCEPT ![t] = NoCall]
    /\ lin' = [lin EXCEPT !.ret[t] = RetNone, !.sink[t] = EmptySink]
    /\ UNCHANGED <<constructed, map, env, lock, tableVars, onceVars>>

\* the steps of thread t from its entry into a call up to the drop of its guard
Progress(t) ==
    \/ OnceInit(t)
    \/ OnceWaitDone(t)
    \/ LockFailed(t)
    \/ SharedSetPwd(t)
    \/ GuardedSetPwd(t)
    \/ GuardedUnwrapFailed(t)
    \/ SharedExpandPath(t)
    \/ SharedStore(t)
    \/ SharedEnvVarsStep(t)
    \/ Unlock(t)

NextShared ==
    \E t \in Threads :
        \/ ExpandPwdNoNeed(t)
        \/ GetSharedDrivePwdMap(t)
        \/ Lock(t)
        \/ Progress(t)
        \/ Return(t)

SpecShared == Init /\ [][NextShared]_vars

\* every thread inside a call goes on running, and a thread that waits in
\* lock() gets the Mutex at one of the times it is free
Fairness ==
    \A t \in Threads : WF_vars(Progress(t)) /\ SF_vars(Lock(t))

\* the runs in which only drive C has a directory: no variable is inherited
\* for the other drives and the operating system reports none for them
OnlyDriveC ==
    \A d \in Drives \ {"C"} : env[d] = None /\ map[d] = None

InitFair == Init /\ OnlyDriveC

NextSharedFair == NextShared /\ OnlyDriveC'

SpecSharedFair == InitFair /\ [][NextSharedFair]_vars /\ Fairness

----------------------------------------------------------------------------
(* init_pwd_per_drive (src/run.rs): the import of the inherited "=X:"      *)
(* variables of engine_state into stack.pwd_per_drive at startup           *)

\* the values of the "=X:" variables engine_state may hold at startup:
\* those a process may inherit, and for Z a value that names no drive
StartupVals(d) ==
    IF d = "Z" THEN {<<BSlash, "e">>} ELSE InheritedVals(d)

StartupEnvs ==
    {e \in [Drives -> {None} \cup {Some(v) : v \in UNION {StartupVals(d) : d \in Drives}}] :
        \A d \in Drives : e[d] = None \/ Unwrap(e[d]) \in StartupVals(d)}

\* no "=X:" variable
NoEnv == [d \in Drives |-> None]

\* stack.pwd_per_drive before the import: a table DriveToPwdMap::new() builds
\* from what the operating system reports
StartupTables == {DriveToPwdMap_new(NoEnv, os).map : os \in OsWorld}

\* engine_state.cwd(None): no directory, or an absolute path
Cwds == {None} \cup {Some(<<d>> \o r) : d \in {"C", "D"}, r \in AbsRems}

InitStartup ==
    /\ constructed = TRUE
    /\ map \in StartupTables
    /\ env \in StartupEnvs
    /\ last = Last("none", << >>, RetNone, FALSE, None, EmptySink, EmptySink)
    /\ setDrives = {}
    /\ pc = [t \in Threads |-> "idle"]
    /\ call = [t \in Threads |-> NoCall]
    /\ lock = None
    /\ lin = NoLin
    /\ poisoned = FALSE
    /\ initBy = None
    /\ nNew = 1
    /\ imp = [i |-> 1, phase |-> "read", applied |-> {}]

\* the drive of the current turn of the loop over 'A'..='Z'
ImportDrive == DriveSeq[imp.i]

\* the turn moves on to the next drive, and after the last to the cwd
NextTurn ==
    IF imp.i = Len(DriveSeq)
    THEN [imp EXCEPT !.phase = "cwd"]
    ELSE [imp EXCEPT !.i = imp.i + 1, !.phase = "read"]

\* engine_state.get_env_var(&env_var) is None: nothing to import
ImportSkip ==
    /\ imp.phase = "read"
    /\ env[ImportDrive] = None
    /\ imp' = NextTurn
    /\ UNCHANGED <<constructed, map, env, last, setDrives, nNew, sharedVars>>

\* let _ = stack.pwd_per_drive.set_pwd(Path::new(&pwd_str)): the value of
\* the variable (a string, so env_to_string is Ok) is applied and the
\* result of set_pwd dropped
ImportSetPwd ==
    /\ imp.phase = "read"
    /\ IsSome(env[ImportDrive])
    /\ LET path == Unwrap(env[ImportDrive])
           r == set_pwd(map, path) IN
       /\ map' = r.map
       /\ last' = Last("set_pwd", path, r.ret, FALSE, None, EmptySink, EmptySink)
       /\ setDrives' = IF r.ret.tag = "Ok"
                        THEN setDrives \cup {to_ascii_uppercase(path[1])}
                        ELSE setDrives
    /\ imp' = [imp EXCEPT !.phase = "remove",
                          !.applied = imp.applied \cup {ImportDrive}]
    /\ UNCHANGED <<constructed, env, nNew, sharedVars>>

\* stack.remove_env_var(engine_state, &env_var); continue
ImportRemove ==
    /\ imp.phase = "remove"
    /\ env' = [env EXCEPT ![ImportDrive] = None]
    /\ imp' = NextTurn
    /\ UNCHANGED <<constructed, map, last, setDrives, nNew, sharedVars>>

\* after the loop: if engine_state.cwd(None) is Ok, set_pwd of it, the
\* result dropped
ImportCwd ==
    /\ imp.phase = "cwd"
    /\ \E cwd \in Cwds :
         IF IsSome(cwd)
         THEN LET r == set_pwd(map, Unwrap(cwd)) IN
              /\ map' = r.map
              /\ last' = Last("set_pwd", Unwrap(cwd), r.ret, FALSE, None,
                              EmptySink, EmptySink)
              /\ setDrives' = IF r.ret.tag = "Ok"
                               THEN setDrives \cup {to_ascii_uppercase(Unwrap(cwd)[1])}
                               ELSE setDrives
         ELSE /\ last' = Last("cwd", << >>, RetErr("NoCwd"), FALSE, None,
                              EmptySink, EmptySink)
              /\ UNCHANGED <<map, setDrives>>
    /\ imp' = [imp EXCEPT !.phase = "done"]
    /\ UNCHANGED <<constructed, env, nNew, sharedVars>>

NextStartup == ImportSkip \/ ImportSetPwd \/ ImportRemove \/ ImportCwd

SpecStartup == InitStartup /\ [][NextStartup]_vars

----------------------------------------------------------------------------
(* Properties of the table's own operations, checked under Spec *)

IsLetter(c) == c \in {"C", "D", "E", "Z", "c", "d", "e", "z"}

Upper(c) ==
    IF c = "c" THEN "C" ELSE IF c = "d" THEN "D"
    ELSE IF c = "e" THEN "E" ELSE IF c = "z" THEN "Z" ELSE c

IsSep(c) == c = "\\" \/ c = "/"

\* "L:" followed by a root separator
IsAbsolutePath(p) ==
    Len(p) >= 3 /\ IsLetter(p[1]) /\ p[2] = ":" /\ IsSep(p[3])

\* "l:rel": a drive letter, ":", and a remainder that starts with no separator
IsDriveRelative(p) ==
    Len(p) >= 2 /\ IsLetter(p[1]) /\ p[2] = ":" /\ (Len(p) = 2 \/ ~IsSep(p[3]))

\* p followed by a separator if it does not end in one
WithSep(p) ==
    IF Len(p) > 0 /\ IsSep(p[Len(p)]) THEN p ELSE p \o <<"\\">>

\* C1: after set_pwd of an absolute path "L:" + r, get_pwd of L in either
\* case returns uppercase(L) + ":" + r, and the same set_pwd once more
\* changes nothing in the table.
C1_SetThenGet ==
    [][ /\ last.op = "set_pwd"
        /\ IsAbsolutePath(last.arg)
        => /\ last.ret.tag = "Ok"
           /\ map[Upper(last.arg[1])] = <<<<Upper(last.arg[1])>> \o Tail(last.arg)>>
           /\ (last'.op = "get_pwd" /\ Upper(last'.arg[1]) = Upper(last.arg[1])
                 => /\ last'.ret = [tag |-> "Ok",
                                    val |-> <<Upper(last.arg[1])>> \o Tail(last.arg)]
                    /\ map' = map)
           /\ (last'.op = "set_pwd" /\ last'.arg = last.arg => map' = map)
      ]_vars

\* C1's case: get_pwd('c') answered "C:\" from the table, a value only
\* set_pwd stores, and did not ask the operating system
C1_Witness ==
    /\ last.op = "get_pwd"
    /\ last.arg = <<"c">>
    /\ ~last.asked
    /\ last.ret = [tag |-> "Ok", val |-> <<"C", ":", "\\">>]
    /\ "C" \in setDrives

\* C2 as stated: for a slot that holds P, expand_path of "l:rel" is P, a
\* separator if P ends in none, and rel.
C2_Original ==
    [][ /\ last'.op = "expand_path"
        /\ IsDriveRelative(last'.arg)
        /\ map[Upper(last'.arg[1])] # << >>
        => last'.ret = [tag |-> "Some",
                        val |-> WithSep(map[Upper(last'.arg[1])][1])
                                \o SubSeq(last'.arg, 3, Len(last'.arg))]
      ]_vars

\* C4 as stated: every occupied slot holds its own upper case drive letter,
\* ":" and a root separator, then the rest.
C4_Original ==
    \A d \in Drives :
        map[d] # << >> =>
            /\ Len(map[d][1]) >= 3
            /\ map[d][1][1] = d
            /\ map[d][1][2] = ":"
            /\ IsSep(map[d][1][3])

\* C5: get_pwd of an ASCII letter never fails, and for an unknown slot with
\* no answer from the operating system it returns uppercase(L) + ":\".
C5_GetNeverFails ==
    [][ last'.op = "get_pwd" /\ IsLetter(last'.arg[1])
        => /\ last'.ret.tag = "Ok"
           /\ (map[Upper(last'.arg[1])] = << >> /\ last'.sys = << >>
                 => /\ last'.asked
                    /\ last'.ret.val = <<Upper(last'.arg[1]), ":", "\\">>)
      ]_vars

\* C5's case: get_pwd('c') on an unknown slot, the operating system gave no
\* answer, and the result is "C:\"
C5_Witness ==
    /\ last.op = "get_pwd"
    /\ last.arg = <<"c">>
    /\ last.asked
    /\ last.sys = << >>
    /\ map["C"] = << >>
    /\ last.ret = [tag |-> "Ok", val |-> <<"C", ":", "\\">>]

\* C2 without its failing case: for a remainder that does not itself start
\* with a drive prefix "x:", expand_path is P, a separator if P ends in
\* none, and rel.
C2_HoldsWithoutPrefix ==
    [][ /\ last'.op = "expand_path"
        /\ IsDriveRelative(last'.arg)
        /\ ~(Len(last'.arg) >= 4 /\ IsLetter(last'.arg[3]) /\ last'.arg[4] = ":")
        /\ map[Upper(last'.arg[1])] # << >>
        => last'.ret = [tag |-> "Some",
                        val |-> WithSep(map[Upper(last'.arg[1])][1])
                                \o SubSeq(last'.arg, 3, Len(last'.arg))]
      ]_vars

\* the value a HashMap holds for a key, as a set: empty or one value
ValuesOf(sink, k) == {e[2] : e \in {x \in sink : x[1] = k}}

KeyOf(d) == <<"=", d, ":">>

\* get_env_vars has just run into an empty HashMap on a table for which
\* set_pwd succeeded for exactly the drives C, D and Z
ExportedAfterSets ==
    /\ last.op = "get_env_vars"
    /\ last.sinkIn = {}
    /\ setDrives = {"C", "D", "Z"}

C8_ExportFrame ==
    [][ last'.op = "get_env_vars"
        => /\ map' = map
           /\ \A d \in Drives :
                 ValuesOf(last'.sinkOut, KeyOf(d)) =
                     IF map[d] # << >> /\ Len(map[d][1]) > 3
                     THEN {map[d][1]}
                     ELSE ValuesOf(last'.sinkIn, KeyOf(d))
           /\ \A e \in last'.sinkIn \cup last'.sinkOut :
                 (\A d \in Drives : e[1] # KeyOf(d))
                     => e \in last'.sinkIn \cap last'.sinkOut
      ]_vars

\* C8's case: an export into a HashMap that held "P" and a stale "=C:",
\* with slot C root-only (not written) and slot D written
C8_Witness ==
    /\ last.op = "get_env_vars"
    /\ map["C"] = <<<<"C", ":", "\\">>>>
    /\ map["D"] = <<<<"D", ":", "\\", "e">>>>
    /\ map["E"] = << >>
    /\ map["Z"] = << >>
    /\ last.sinkOut = {<<<<"P">>, <<"p">>>>, <<KeyOf("C"), <<"x">>>>,
                       <<KeyOf("D"), <<"D", ":", "\\", "e">>>>}

\* C9: set_pwd of a path whose first character is no ASCII letter fails with
\* InvalidPath, get_pwd of a character that is no ASCII letter fails with
\* InvalidDriveLetter, and neither changes the table.
C9_InvalidInputs ==
    [][ /\ (last'.op = "set_pwd"
              /\ (Len(last'.arg) = 0 \/ ~IsLetter(last'.arg[1]))
            => last'.ret = [tag |-> "InvalidPath", val |-> << >>] /\ map' = map)
        /\ (last'.op = "get_pwd" /\ ~IsLetter(last'.arg[1])
            => last'.ret = [tag |-> "InvalidDriveLetter", val |-> << >>]
               /\ map' = map)
      ]_vars

\* C9's case: set_pwd("\e") has failed with InvalidPath on a table that
\* holds a directory
C9_Witness ==
    /\ last.op = "set_pwd"
    /\ last.arg = <<"\\", "e">>
    /\ last.ret.tag = "InvalidPath"
    /\ map["C"] # << >>

\* C10 as stated: set_pwd of a path whose designator before ":" is no ASCII
\* letter fails with InvalidDriveLetter.
C10_Original ==
    [][ /\ last'.op = "set_pwd"
        /\ Len(last'.arg) >= 2
        /\ last'.arg[2] = ":"
        /\ ~IsLetter(last'.arg[1])
        => last'.ret.tag = "InvalidDriveLetter"
      ]_vars

\* C11 as stated: set_pwd of a path that starts with an ASCII letter but is
\* no absolute drive-qualified path ("C", "Cfoo", "C:", "C:rel") fails with
\* InvalidPath and leaves the table unchanged.
C11_Original ==
    [][ /\ last'.op = "set_pwd"
        /\ Len(last'.arg) >= 1
        /\ IsLetter(last'.arg[1])
        /\ ~IsAbsolutePath(last'.arg)
        => /\ last'.ret = [tag |-> "InvalidPath", val |-> << >>]
           /\ map' = map
      ]_vars

\* the condition of C15 on a string
NeedsExpansion(p) ==
    /\ Len(p) >= 2
    /\ p[2] = ":"
    /\ (Len(p) = 2 \/ (p[3] # "\\" /\ p[3] # "/"))

\* C15: need_expand is true exactly for the strings of at least two
\* characters whose second is ":" and that are two long or have a third
\* character other than "\" and "/"; seen from outside, expand_path of a
\* path that starts with a letter rewrites it exactly then, and a string of
\* fewer than two characters is answered None, not with a failure.
C15_NeedExpand ==
    last.op \in {"expand_path", "set_pwd"} =>
        /\ need_expand(last.arg) <=> NeedsExpansion(last.arg)
        /\ (last.op = "expand_path"
              => /\ last.ret.tag \in {"Some", "None"}
                 /\ (Len(last.arg) >= 1 /\ IsLetter(last.arg[1])
                       => (last.ret.tag = "Some" <=> NeedsExpansion(last.arg)))
                 /\ (Len(last.arg) < 2 => last.ret.tag = "None"))

\* C15's case: expand_path of the one-character string "c" has answered
\* None although slot C holds a directory
C15_Witness ==
    /\ last.op = "expand_path"
    /\ last.arg = <<"c">>
    /\ last.ret.tag = "None"
    /\ map["C"] = <<<<"C", ":", "\\", "e">>>>

\* the answer of the operating system is a directory below the root
LongerThanRoot(sys) == sys # << >> /\ Len(sys[1]) > 3

\* C16: get_pwd of a letter whose slot holds a value returns that value
\* without asking the operating system and without changing the table; on an
\* unknown slot an answer of the operating system longer than the bare root
\* is stored in the slot and returned; and an occupied slot changes only by
\* a successful set_pwd for its drive, so every later get_pwd returns the
\* stored value whatever the operating system would answer by then.
C16_GetCaches ==
    [][ /\ (last'.op = "get_pwd" /\ IsLetter(last'.arg[1])
            => /\ (map[Upper(last'.arg[1])] # << >>
                     => /\ last'.ret = [tag |-> "Ok",
                                        val |-> map[Upper(last'.arg[1])][1]]
                        /\ ~last'.asked
                        /\ map' = map)
               /\ (map[Upper(last'.arg[1])] = << >> /\ LongerThanRoot(last'.sys)
                     => /\ last'.asked
                        /\ last'.ret = [tag |-> "Ok", val |-> last'.sys[1]]
                        /\ map' = [map EXCEPT ![Upper(last'.arg[1])] = last'.sys]))
        /\ \A d \in Drives :
              map[d] # << >> /\ map'[d] # map[d]
              => /\ last'.op = "set_pwd"
                 /\ last'.ret.tag = "Ok"
                 /\ Upper(last'.arg[1]) = d
      ]_vars

\* C16's case: get_pwd('E') found slot E unknown, the operating system
\* answered "E:\e", and the slot now holds that answer
C16_Witness ==
    /\ last.op = "get_pwd"
    /\ last.arg = <<"E">>
    /\ last.asked
    /\ last.sys = <<<<"E", ":", "\\", "e">>>>
    /\ last.ret.val = <<"E", ":", "\\", "e">>
    /\ map["E"] = <<<<"E", ":", "\\", "e">>>>

\* the operating system was asked and gave no answer or at most the root
RootOnly(l) == l.asked /\ ~LongerThanRoot(l.sys)

\* C17: a get_pwd or expand_path that asks the operating system for an
\* unknown slot and gets no answer or the bare root leaves the slot unknown
\* and the table unchanged; a get_pwd for that drive right after it asks the
\* operating system again and returns the answer it gives then, and a
\* set_pwd for that drive right after it is what the slot then holds.
C17_RootOnlyNotCached ==
    [][ /\ (last'.op \in {"get_pwd", "expand_path"} /\ RootOnly(last')
            => /\ map[Upper(last'.arg[1])] = << >>
               /\ map' = map)
        /\ (last.op \in {"get_pwd", "expand_path"} /\ RootOnly(last)
            => /\ (last'.op = "get_pwd"
                     /\ Upper(last'.arg[1]) = Upper(last.arg[1])
                     => /\ last'.asked
                        /\ (last'.sys # << >>
                              => last'.ret = [tag |-> "Ok", val |-> last'.sys[1]]))
               /\ (last'.op = "set_pwd" /\ last'.ret.tag = "Ok"
                     /\ Upper(last'.arg[1]) = Upper(last.arg[1])
                     => map'[Upper(last.arg[1])] =
                            <<<<Upper(last.arg[1])>> \o Tail(last'.arg)>>))
      ]_vars

\* C17's case: expand_path("c:e") asked the operating system, which answered
\* the bare root "C:\", and slot C is still unknown
C17_Witness ==
    /\ last.op = "expand_path"
    /\ last.arg = <<"c", ":", "e">>
    /\ last.asked
    /\ last.sys = <<<<"C", ":", "\\">>>>
    /\ last.ret = [tag |-> "Some", val |-> <<"C", ":", "\\", "e">>]
    /\ map["C"] = << >>

\* after new() a slot that was unknown is filled only by a successful
\* set_pwd for its drive or by the answer of the operating system to a
\* get_pwd or expand_path for its drive
FilledOnlyBySetOrQuery ==
    \A d \in Drives :
        constructed /\ map[d] = << >> /\ map'[d] # << >>
        => \/ /\ last'.op = "set_pwd"
              /\ last'.ret.tag = "Ok"
              /\ Upper(last'.arg[1]) = d
           \/ /\ last'.op \in {"get_pwd", "expand_path"}
              /\ last'.asked
              /\ Upper(last'.arg[1]) = d
              /\ map'[d] = last'.sys

C19_Original ==
    [][ /\ (last'.op = "new"
            => \A d \in Drives :
                  env[d] # << >> /\ Len(env[d][1]) > 3
                  => map'[d] = <<<<d>> \o Tail(env[d][1])>>)
        /\ (/\ last.op = "new"
            /\ last'.op = "expand_path"
            /\ Len(last'.arg) = 2
            /\ IsLetter(last'.arg[1])
            /\ last'.arg[2] = ":"
            /\ map[Upper(last'.arg[1])] # << >>
            => last'.ret =
                 [tag |-> "Some",
                  val |-> WithSep(<<Upper(last'.arg[1])>>
                                  \o Tail(map[Upper(last'.arg[1])][1]))])
      ]_vars

\* the remainder of "l:rel" starts with a drive prefix "x:" itself
RemainderHasPrefix(p) == Len(p) >= 4 /\ IsLetter(p[3]) /\ p[4] = ":"

\* s ends with a separator that no separator precedes
EndsWithOneSep(s) ==
    /\ Len(s) >= 1
    /\ IsSep(s[Len(s)])
    /\ (Len(s) >= 2 => ~IsSep(s[Len(s) - 1]))

\* C21 as stated: for a slot that holds P, whatever separators P ends in,
\* the result of expand_path of "l:rel" is a base that ends with exactly one
\* separator followed by rel; for the bare "l:" it is P with exactly one
\* separator at its end.
C21_Original ==
    [][ /\ last'.op = "expand_path"
        /\ IsDriveRelative(last'.arg)
        /\ ~RemainderHasPrefix(last'.arg)
        /\ map[Upper(last'.arg[1])] # << >>
        => /\ last'.ret.tag = "Some"
           /\ Len(last'.ret.val) >= Len(last'.arg) - 2
           /\ EndsWithOneSep(SubSeq(last'.ret.val, 1,
                                    Len(last'.ret.val) - (Len(last'.arg) - 2)))
           /\ SubSeq(last'.ret.val,
                     Len(last'.ret.val) - (Len(last'.arg) - 2) + 1,
                     Len(last'.ret.val))
                = SubSeq(last'.arg, 3, Len(last'.arg))
      ]_vars

\* every slot but that of drive x is as it was
OthersUnchanged(x) == \A d \in Drives : d # x => map'[d] = map[d]

\* C23: a set_pwd that succeeds changes no slot but that of the drive its
\* path names; a set_pwd that fails changes no slot; get_pwd and expand_path
\* change no slot but that of the drive they name, and none if they name no
\* drive.
C23_Frame ==
    [][ /\ (last'.op = "set_pwd"
            => IF last'.ret.tag = "Ok"
               THEN OthersUnchanged(Upper(last'.arg[1]))
               ELSE map' = map)
        /\ (last'.op \in {"get_pwd", "expand_path"}
            => IF Len(last'.arg) >= 1 /\ IsLetter(last'.arg[1])
               THEN OthersUnchanged(Upper(last'.arg[1]))
               ELSE map' = map)
      ]_vars

\* C23's case: set_pwd("D:\e") has just succeeded on a table whose slots C
\* and Z hold other directories and whose slot E is unknown
C23_Witness ==
    /\ last.op = "set_pwd"
    /\ last.arg = <<"D", ":", "\\", "e">>
    /\ last.ret.tag = "Ok"
    /\ map["D"] = <<<<"D", ":", "\\", "e">>>>
    /\ map["C"] = <<<<"C", ":", "\\">>>>
    /\ map["Z"] = <<<<"Z", ":", "\\", "e">>>>
    /\ map["E"] = << >>

----------------------------------------------------------------------------
(* Properties of shared_map, checked under SpecShared *)

\* C3: at most one thread is between lock() and the drop of the guard; the
\* result of every finished call is the result the same call has when the
\* calls run one at a time in the order of their lock(); and whenever no
\* thread holds the guard the table is the table of that sequential run.
C3_Serialized ==
    /\ \A t, u \in Threads : InCritical(t) /\ InCritical(u) => t = u
    /\ \A t \in Threads :
          pc[t] = "done" => call[t].ret = lin.ret[t]
                            /\ (call[t].op = "get_env_vars"
                                  => call[t].sink = lin.sink[t])
    /\ ((\A t \in Threads : ~InCritical(t)) => map = lin.map)

\* C3's case: t1 is inside expand_pwd with its write to slot C still to
\* come while t2 waits in lock() with a set_pwd for the same drive
C3_Witness ==
    /\ pc["t1"] = "store"
    /\ call["t1"].arg = <<"c", ":", "e">>
    /\ pc["t2"] = "lock"
    /\ call["t2"].op = "set_pwd"
    /\ call["t2"].arg = <<"C", ":", "\\">>

\* thread t takes the step
Steps(t) == pc'[t] # pc[t] \/ call'[t] # call[t]

\* an expand_pwd that must not rewrite its path: need_expand is false, or
\* the first character is no ASCII letter
NotApplicable(p) == ~IsDriveRelative(p)

C12_PoisonedFails ==
    [][ \A t \in Threads :
          /\ Steps(t)
          /\ poisoned
          /\ call'[t].op \in {"set_pwd", "expand_pwd"}
          => /\ map' = map
             /\ (pc'[t] = "done"
                   => call'[t].ret =
                        IF call'[t].op = "set_pwd"
                        THEN [tag |-> "CantLockSharedMap", val |-> << >>]
                        ELSE [tag |-> "None", val |-> << >>])
      ]_vars

\* C12's case: t2 panicked under the guard, and t1's set_pwd("C:\") has
\* returned CantLockSharedMap with slot C as it was
C12_Witness ==
    /\ poisoned
    /\ pc["t2"] = "panicked"
    /\ pc["t1"] = "done"
    /\ call["t1"].op = "set_pwd"
    /\ call["t1"].arg = <<"C", ":", "\\">>
    /\ call["t1"].ret.tag = "CantLockSharedMap"
    /\ map["C"] # <<<<"C", ":", "\\">>>>
    /\ lock = << >>

\* C22 as stated: once the Mutex is poisoned, a shared_map get_env_vars
\* returns the failure CantLockSharedMap to its caller, which is not the
\* result of an export that wrote nothing.
C22_Original ==
    \A t \in Threads :
        /\ poisoned
        /\ pc[t] = "done"
        /\ call[t].op = "get_env_vars"
        => /\ call[t].ret.tag = "CantLockSharedMap"
           /\ call[t].ret # [tag |-> "Ok", val |-> << >>]

\* C14: DriveToPwdMap::new() runs at most once, and exactly once before any
\* thread reaches the Mutex; while one thread runs it no other does; and
\* once the table exists no step reads or removes an inherited variable or
\* builds a table again.
C14_OneInstance ==
    /\ [](/\ nNew <= 1
          /\ (constructed <=> nNew = 1)
          /\ \A t, u \in Threads : pc[t] = "init" /\ pc[u] = "init" => t = u
          /\ \A t \in Threads :
                pc[t] \in {"lock", "locked", "store", "unlock", "failed", "done"}
                /\ call[t].op \in {"set_pwd", "get_env_vars", "guarded_set_pwd"}
                => constructed)
    /\ [][constructed => constructed' /\ env' = env /\ nNew' = nNew]_vars

\* C14's case: t1 runs the initializer while t2, which made its first
\* access in the meantime, waits for it
C14_Witness ==
    /\ ~constructed
    /\ pc["t1"] = "init"
    /\ pc["t2"] = "once_wait"
    /\ env["C"] # << >>

----------------------------------------------------------------------------
(* Properties of shared_map under fair scheduling, checked under           *)
(* SpecSharedFair                                                          *)

\* thread t is inside a shared_map call that has not yet returned
InSharedCall(t) ==
    /\ pc[t] \in {"init", "once_wait", "lock", "locked", "store", "unlock",
                  "failed"}
    /\ call[t].op \in {"set_pwd", "expand_pwd", "get_env_vars"}

----------------------------------------------------------------------------
(* Properties of init_pwd_per_drive, checked under SpecStartup *)

\* the step removes the variable "=d:"
Removes(d) == env[d] # << >> /\ env'[d] = << >>

\* C20 as stated: a variable is removed only right after set_pwd was called
\* with its value, and only if that value was recorded in the table; and
\* when the import is over no "=X:" variable is left.
C20_Original ==
    /\ [][ \A d \in Drives :
             Removes(d)
             => /\ last.op = "set_pwd"
                /\ last.arg = env[d][1]
                /\ last.ret.tag = "Ok"
                /\ \E k \in Drives :
                      map[k] = << <<k>> \o Tail(env[d][1]) >>
         ]_vars
    /\ [](imp.phase \in {"cwd", "done"} => \A d \in Drives : env[d] = << >>)

\* what a slot holds once the inherited value of its drive is recorded
Recorded(d) ==
    CASE d = "C" -> <<"C", ":", "\\", "e">>
      [] d = "D" -> <<"D", ":", "\\">>
      [] d = "E" -> <<"E", ":", "\\", "e">>

\* the drives whose inherited value starts with their letter
Accepted == {"C", "D", "E"}

\* C24: the current directory is applied only when no "=X:" variable is
\* left, each variable having been applied before its removal; the set_pwd
\* of the current directory writes it into the slot of its drive and leaves
\* the other slots alone; so when init_pwd_per_drive is over the slot of
\* the current directory's drive holds the current directory, also where a
\* variable named another directory for that drive, and every other drive
\* whose variable was applied holds its inherited value.
C24_CwdLast ==
    /\ [](imp.phase \in {"cwd", "done"} => \A d \in Drives : env[d] = << >>)
    /\ [][ /\ \A d \in Drives : Removes(d) => d \in imp.applied
           /\ (imp.phase = "cwd" /\ last'.op = "set_pwd"
                 => /\ last'.ret.tag = "Ok"
                    /\ map'[Upper(last'.arg[1])] =
                          <<<<Upper(last'.arg[1])>> \o Tail(last'.arg)>>
                    /\ OthersUnchanged(Upper(last'.arg[1])))
         ]_vars
    /\ [](imp.phase = "done"
            => /\ (last.op = "set_pwd"
                     => map[Upper(last.arg[1])] =
                           <<<<Upper(last.arg[1])>> \o Tail(last.arg)>>)
               /\ \A d \in imp.applied \cap Accepted :
                     (last.op = "set_pwd" => d # Upper(last.arg[1]))
                     => map[d] = <<Recorded(d)>>)

\* C24's case: "=C:" = "c:\e" and "=E:" = "E:\e" were applied, the current
\* directory "C:\" was applied last, and slot C holds "C:\", slot E "E:\e"
C24_Witness ==
    /\ imp.phase = "done"
    /\ imp.applied = {"C", "E"}
    /\ last.op = "set_pwd"
    /\ last.arg = <<"C", ":", "\\">>
    /\ map["C"] = <<<<"C", ":", "\\">>>>
    /\ map["E"] = <<<<"E", ":", "\\", "e">>>>

====
